---- MODULE Spec2Model ----
(***************************************************************************)
(* bitty: extraction of the bits of an unsigned integer as a Vec<bool>     *)
(* (least-significant bit first) and reconstruction of the integer from    *)
(* such a vector, for u8, u16, u32 and u64 (src/src/macros.rs).            *)
(*                                                                         *)
(* An integer of width W is held as its W \div 8 bytes, least-significant  *)
(* byte first (the to_le_bytes() of the Rust value), so that u32 and u64   *)
(* keep their full width.  The operators <<, >>, & and | of the code are   *)
(* modelled on that representation by byte arithmetic.                     *)
(***************************************************************************)
EXTENDS Integers, Sequences, FiniteSets, TLC

VARIABLES width, until, have, val, bits, srcVal, srcBits, last, prev, status,
          checks

vars ==
    <<width, until, have, val, bits, srcVal, srcBits, last, prev, status, checks>>

\* ------------------------------------------------------------- bounds
\* Input integers and input vectors carry every bit pattern 0..MaxPattern.
MaxPattern == 7
\* `until` and the length of an input vector range up to width + MaxOver.
MaxOver == 1
\* A vector is padded with 1..MaxPad false elements, and up to the width.
MaxPad == 2

\* ------------------------------------------------------------- integer types
\* The types the macros are instantiated for: u8, u16, u32, u64.
Widths == {8, 16, 32, 64}

NumBytes(W) == W \div 8

\* The integer given by its bytes, evaluated once (a stored value of type $T).
Store(bytes) == bytes \o <<>>

\* The literal 0 of type $T.
Zero(W) == Store([k \in 1..NumBytes(W) |-> 0])

\* The literal 1 of type $T.
One(W) == Store([k \in 1..NumBytes(W) |-> IF k = 1 THEN 1 ELSE 0])

\* Byte k (1-based) of a, 0 outside the integer.
ByteAt(a, k) == IF k >= 1 /\ k <= Len(a) THEN a[k] ELSE 0

\* The outcome of an operation: `panic` tells that an assertion failed,
\* `ovf` that a shift amount overflowed, `ret` the value otherwise returned.
\* A build with overflow checks (debug) panics where a shift overflows; a
\* build without them (release) shifts by the amount mod W and goes on, which
\* is the value ret holds.
Returned(v) == [panic |-> FALSE, ovf |-> FALSE, ret |-> v]
Overflowed(v) == [panic |-> FALSE, ovf |-> TRUE, ret |-> v]
Panicked == [panic |-> TRUE, ovf |-> FALSE, ret |-> <<>>]

\* A shift of a W-bit integer by n overflows when n >= W.
ShiftOverflows(n, W) == n >= W

\* a << n on a W-bit unsigned integer.
Shl(a, n, W) ==
    LET m == n % W
        q == m \div 8
        r == m % 8
        v == Store([k \in 1..NumBytes(W) |->
                      ((ByteAt(a, k - q) * (2 ^ r)) % 256)
                      + (ByteAt(a, k - q - 1) \div (2 ^ (8 - r)))])
    IN  IF ShiftOverflows(n, W) THEN Overflowed(v) ELSE Returned(v)

\* a >> n on a W-bit unsigned integer (logical shift).
Shr(a, n, W) ==
    LET m == n % W
        q == m \div 8
        r == m % 8
        v == Store([k \in 1..NumBytes(W) |->
                      (ByteAt(a, k + q) \div (2 ^ r))
                      + ((ByteAt(a, k + q + 1) * (2 ^ (8 - r))) % 256)])
    IN  IF ShiftOverflows(n, W) THEN Overflowed(v) ELSE Returned(v)

\* x & y on two bytes, bit by bit from the least-significant one.
RECURSIVE ByteAnd(_, _)
ByteAnd(x, y) ==
    IF x = 0 \/ y = 0 THEN 0
    ELSE ((x % 2) * (y % 2)) + 2 * ByteAnd(x \div 2, y \div 2)

\* a & b
BitAnd(a, b, W) == Store([k \in 1..NumBytes(W) |-> ByteAnd(a[k], b[k])])

\* a | b
BitOr(a, b, W) ==
    Store([k \in 1..NumBytes(W) |-> a[k] + b[k] - ByteAnd(a[k], b[k])])

\* ------------------------------------------------------------- AsBits
\* The outcome of a loop over the indices 0..n-1 that shifts by each of them:
\* it overflows when one of the shifts does, and otherwise returns v.
Looped(n, W, v) ==
    [panic |-> FALSE,
     ovf |-> \E i \in 0..(n - 1) : ShiftOverflows(i, W),
     ret |-> v]

\* as_bits_until_unchecked pushing `bit == 1`, the selected bit not moved back.
as_bits_until_unchecked_noshift(self, u, W) ==
    Looped(u, W,
        [j \in 1..u |->
            LET i == j - 1
                bit == BitAnd(self, Shl(One(W), i, W).ret, W)
            IN  bit = One(W)])

\* as_bits_until_unchecked selecting the bits from index 1 on (`1 << (i + 1)`).
as_bits_until_unchecked_from1(self, u, W) ==
    Looped(u + 1, W,
        [j \in 1..u |->
            LET i == j
                bit == BitAnd(self, Shl(One(W), i, W).ret, W)
            IN  Shr(bit, i, W).ret = One(W)])

\* unsafe fn as_bits_until_unchecked(&self, until: usize) -> Vec<bool>
as_bits_until_unchecked(self, u, W) ==
    Looped(u, W,
        [j \in 1..u |->
            LET i == j - 1
                bit == BitAnd(self, Shl(One(W), i, W).ret, W)
            IN  Shr(bit, i, W).ret = One(W)])

\* as_bits passing $length - 1, the top bit left out.
as_bits_short(self, W) == as_bits_until_unchecked(self, W - 1, W)

\* fn as_bits(&self) -> Vec<bool>
as_bits(self, W) == as_bits_until_unchecked(self, W, W)

\* as_bits_until passing $length on, as as_bits does, whatever `until` is.
as_bits_until_full(self, u, W) ==
    IF ~(u <= W) THEN Panicked
    ELSE as_bits_until_unchecked(self, W, W)

\* as_bits_until clamping `until` to $length instead of asserting.
as_bits_until_clamped(self, u, W) ==
    as_bits_until_unchecked(self, IF u <= W THEN u ELSE W, W)

\* as_bits_until asserting `until < $length`.
as_bits_until_strict(self, u, W) ==
    IF ~(u < W) THEN Panicked
    ELSE as_bits_until_unchecked(self, u, W)

\* fn as_bits_until(&self, until: usize) -> Vec<bool>
as_bits_until(self, u, W) ==
    IF ~(u <= W) THEN Panicked
    ELSE as_bits_until_unchecked(self, u, W)

\* ------------------------------------------------------------- FromBits
\* The loop assigning `val = 1 << i` instead of or-ing the mask into val.
RECURSIVE FromBitsLoopAssign(_, _, _)
FromBitsLoopAssign(bs, st, W) ==
    IF st.i >= Len(bs)
    THEN [panic |-> FALSE, ovf |-> st.ovf, ret |-> st.val]
    ELSE FromBitsLoopAssign(bs,
                            [i |-> st.i + 1,
                             val |-> IF bs[st.i + 1]
                                     THEN Shl(One(W), st.i, W).ret
                                     ELSE st.val,
                             ovf |-> st.ovf
                                     \/ (bs[st.i + 1] /\ ShiftOverflows(st.i, W))],
                            W)

\* The loop taking the vector most-significant bit first
\* (`1 << (bits.len() - 1 - i)`).
RECURSIVE FromBitsLoopMsbFirst(_, _, _)
FromBitsLoopMsbFirst(bs, st, W) ==
    IF st.i >= Len(bs)
    THEN [panic |-> FALSE, ovf |-> st.ovf, ret |-> st.val]
    ELSE FromBitsLoopMsbFirst(bs,
                              [i |-> st.i + 1,
                               val |-> IF bs[st.i + 1]
                                       THEN BitOr(st.val,
                                                  Shl(One(W), Len(bs) - 1 - st.i, W).ret,
                                                  W)
                                       ELSE st.val,
                               ovf |-> st.ovf
                                       \/ (bs[st.i + 1]
                                           /\ ShiftOverflows(Len(bs) - 1 - st.i, W))],
                              W)

\* The loop of from_bits_unchecked, st holding the index i the loop is at,
\* the accumulator val, and whether a shift has overflowed so far (`1 << i`
\* is evaluated for the true elements only).
RECURSIVE FromBitsLoop(_, _, _)
FromBitsLoop(bs, st, W) ==
    IF st.i >= Len(bs)
    THEN [panic |-> FALSE, ovf |-> st.ovf, ret |-> st.val]
    ELSE FromBitsLoop(bs,
                      [i |-> st.i + 1,
                       val |-> IF bs[st.i + 1]
                               THEN BitOr(st.val, Shl(One(W), st.i, W).ret, W)
                               ELSE st.val,
                       ovf |-> st.ovf
                               \/ (bs[st.i + 1] /\ ShiftOverflows(st.i, W))],
                      W)

\* unsafe fn from_bits_unchecked(bits: &[bool]) -> Self
from_bits_unchecked(bs, W) ==
    FromBitsLoop(bs, [i |-> 0, val |-> Zero(W), ovf |-> FALSE], W)

\* from_bits without its assertion.
from_bits_noassert(bs, W) == from_bits_unchecked(bs, W)

\* fn from_bits(bits: &[bool]) -> Self
from_bits(bs, W) ==
    IF ~(Len(bs) <= W) THEN Panicked
    ELSE from_bits_unchecked(bs, W)

\* ------------------------------------------------------------- inputs
\* The number of bits of n.
RECURSIVE BitLen(_)
BitLen(n) == IF n = 0 THEN 0 ELSE 1 + BitLen(n \div 2)

\* The number of bits a pattern takes.
PatBits == BitLen(MaxPattern)

\* Bit j (0-based) of the pattern p.
PatBit(p, j) == ((p \div (2 ^ j)) % 2) = 1

\* The vector of length n that is `fill` everywhere but for the PatBits bits
\* of p placed from index off on.
PatVec(n, p, off, fill) ==
    [j \in 1..n |->
        IF j - 1 >= off /\ j - 1 < off + PatBits THEN PatBit(p, j - 1 - off)
        ELSE fill] \o <<>>

\* The W-bit integer whose bits are the vector bs (bs of length W).
Pack(bs, W) ==
    Store([k \in 1..NumBytes(W) |->
            LET b(j) == IF bs[8 * (k - 1) + j + 1] THEN 2 ^ j ELSE 0
            IN  b(0) + b(1) + b(2) + b(3) + b(4) + b(5) + b(6) + b(7)])

Patterns == 0..MaxPattern

\* Where the pattern sits in a vector of length n: at the low end and at the
\* high end.
Offsets(n) == {0, IF n >= PatBits THEN n - PatBits ELSE 0}

InputVecs(n) ==
    {PatVec(n, p, off, fill) : p \in Patterns, off \in Offsets(n), fill \in BOOLEAN}

InputInts(W) == {Pack(bs, W) : bs \in InputVecs(W)}

\* ------------------------------------------------------------- the caller
\* A caller holds an integer (val) or a vector (bits) and applies an entry
\* point to it; it may then apply an entry point to the result, as in
\* u8::from_bits(&5u8.as_bits()).  srcVal and srcBits record the operand of
\* the last extraction and of the last reconstruction, until the argument of
\* the last as_bits_until[_unchecked], last and prev the last two entry
\* points called.  checks tells whether the build has overflow checks; it
\* shows only where a shift overflows and is left open ("unknown") until then.
Init ==
    /\ width \in Widths
    /\ last = "none"
    /\ prev = "none"
    /\ status = "ok"
    /\ checks = "unknown"
    /\ until = 0
    /\ srcVal = Zero(width)
    /\ srcBits = <<>>
    /\ \/ /\ have = "val"
          /\ val \in InputInts(width)
          /\ bits = <<>>
       \/ /\ have = "bits"
          /\ val = Zero(width)
          /\ \E n \in 0..(width + MaxOver) : bits \in InputVecs(n)

\* A call is made on the input or on the result of the first call.
CanCall(operand) ==
    /\ status = "ok"
    /\ prev = "none"
    /\ have = operand

\* The `until` a caller passes: any on its input integer; on a reconstructed
\* integer, the number of bits it was reconstructed from.
UntilArgs ==
    IF last = "none" THEN 0..(width + MaxOver) ELSE {Len(srcBits)}

\* The builds the outcome r can come from.
BuildsFor(r) ==
    IF r.ovf /\ checks = "unknown" THEN {"on", "off"} ELSE {checks}

\* The call panics: its assertion failed, or a shift overflowed in a build
\* with overflow checks.
Panics(r, oc) == r.panic \/ (r.ovf /\ oc = "on")

Finish(r, oc, op) ==
    /\ prev' = last
    /\ last' = op
    /\ checks' = oc
    /\ status' = IF Panics(r, oc) THEN "panic" ELSE "ok"

\* An extraction that gave r from val.
Extracted(r, oc, op) ==
    /\ Finish(r, oc, op)
    /\ srcVal' = val
    /\ bits' = IF Panics(r, oc) THEN bits ELSE r.ret
    /\ have' = IF Panics(r, oc) THEN "none" ELSE "bits"

\* A reconstruction that gave r from bits.
Reconstructed(r, oc, op) ==
    /\ Finish(r, oc, op)
    /\ srcBits' = bits
    /\ val' = IF Panics(r, oc) THEN val ELSE r.ret
    /\ have' = IF Panics(r, oc) THEN "none" ELSE "val"

AsBits ==
    /\ CanCall("val")
    /\ \E r \in {as_bits(val, width)} :
       \E oc \in BuildsFor(r) : Extracted(r, oc, "as_bits")
    /\ UNCHANGED <<width, until, val, srcBits>>

AsBitsUntil ==
    /\ CanCall("val")
    /\ \E u \in UntilArgs :
       \E r \in {as_bits_until(val, u, width)} :
       \E oc \in BuildsFor(r) :
          /\ Extracted(r, oc, "as_bits_until")
          /\ until' = u
    /\ UNCHANGED <<width, val, srcBits>>

AsBitsUntilUnchecked ==
    /\ CanCall("val")
    /\ \E u \in UntilArgs :
       \E r \in {as_bits_until_unchecked(val, u, width)} :
       \E oc \in BuildsFor(r) :
          /\ Extracted(r, oc, "as_bits_until_unchecked")
          /\ until' = u
    /\ UNCHANGED <<width, val, srcBits>>

FromBits ==
    /\ CanCall("bits")
    /\ \E r \in {from_bits(bits, width)} :
       \E oc \in BuildsFor(r) : Reconstructed(r, oc, "from_bits")
    /\ UNCHANGED <<width, until, bits, srcVal>>

FromBitsUnchecked ==
    /\ CanCall("bits")
    /\ \E r \in {from_bits_unchecked(bits, width)} :
       \E oc \in BuildsFor(r) : Reconstructed(r, oc, "from_bits_unchecked")
    /\ UNCHANGED <<width, until, bits, srcVal>>

Next ==
    \/ AsBits
    \/ AsBitsUntil
    \/ AsBitsUntilUnchecked
    \/ FromBits
    \/ FromBitsUnchecked

Spec == Init /\ [][Next]_vars

\* ------------------------------------------------------------- properties
\* Bit i (0-based) of the integer a: ((a >> i) & 1) == 1, by arithmetic.
BitOf(a, i) == ((a[(i \div 8) + 1] \div (2 ^ (i % 8))) % 2) = 1

\* a mod 2^u: a with its bits at index >= u cleared.
ClearFrom(a, u, W) ==
    Store([k \in 1..NumBytes(W) |->
            IF u >= 8 * k THEN a[k]
            ELSE IF u <= 8 * (k - 1) THEN 0
            ELSE a[k] % (2 ^ (u - 8 * (k - 1)))])

\* a is a value of the W-bit unsigned type.
IsInt(a, W) == Len(a) = NumBytes(W) /\ \A k \in 1..Len(a) : a[k] \in 0..255

\* n false elements.
Falses(n) == [j \in 1..n |-> FALSE] \o <<>>

\* How many false elements a vector of length L is padded with.
PadCounts(L, W) == {k \in 1..(W - L) : k <= MaxPad \/ k = W - L}

EntryPoints ==
    {"as_bits", "as_bits_until", "as_bits_until_unchecked",
     "from_bits", "from_bits_unchecked"}

TypeOK ==
    /\ width \in Widths
    /\ IsInt(val, width)
    /\ IsInt(srcVal, width)
    /\ bits \in Seq(BOOLEAN)
    /\ srcBits \in Seq(BOOLEAN)
    /\ until \in 0..(width + MaxOver)
    /\ have \in {"val", "bits", "none"}
    /\ last \in {"none"} \cup EntryPoints
    /\ prev \in {"none"} \cup EntryPoints
    /\ status \in {"ok", "panic"}
    /\ checks \in {"unknown", "on", "off"}

\* C1: from_bits(as_bits(v)) does not panic and returns exactly v, for every
\* width and every value v.
C1_RoundTrip ==
    (last = "from_bits" /\ prev = "as_bits")
        => (status = "ok" /\ val = srcVal)

C1_Witness ==
    /\ last = "from_bits" /\ prev = "as_bits" /\ status = "ok"
    /\ width = 64
    /\ BitOf(srcVal, 63)
    /\ val = srcVal

\* C2: as_bits returns exactly W booleans, least-significant bit first:
\* element i is ((value >> i) & 1) == 1 for every i in [0, W), the top bit
\* included; as_bits(5u8) is [true,false,true,false,false,false,false,false].
C2_AsBitsLsbFirst ==
    last = "as_bits"
        => /\ status = "ok"
           /\ Len(bits) = width
           /\ \A i \in 0..(width - 1) : bits[i + 1] = BitOf(srcVal, i)
           /\ (width = 8 /\ srcVal = <<5>>)
                => bits = <<TRUE, FALSE, TRUE, FALSE, FALSE, FALSE, FALSE, FALSE>>

C2_Witness ==
    /\ last = "as_bits" /\ status = "ok"
    /\ width = 8
    /\ srcVal = <<5>>
    /\ bits = <<TRUE, FALSE, TRUE, FALSE, FALSE, FALSE, FALSE, FALSE>>

\* C3: from_bits of a vector of length L <= W returns the W-bit value whose
\* bit i is bits[i] for i in [0, L) and 0 for i in [L, W); [true] gives 1 at
\* width 64, [true,true,true,true] gives 15 at width 8, the empty vector 0.
C3_FromBitsZeroFills ==
    (last = "from_bits" /\ Len(srcBits) <= width)
        => /\ status = "ok"
           /\ IsInt(val, width)
           /\ \A i \in 0..(width - 1) :
                BitOf(val, i) = (i < Len(srcBits) /\ srcBits[i + 1])
           /\ (width = 64 /\ srcBits = <<TRUE>>) => val = <<1, 0, 0, 0, 0, 0, 0, 0>>
           /\ (width = 8 /\ srcBits = <<TRUE, TRUE, TRUE, TRUE>>) => val = <<15>>
           /\ srcBits = <<>> => val = Zero(width)

C3_Witness ==
    /\ last = "from_bits" /\ status = "ok"
    /\ width = 64
    /\ srcBits = <<TRUE>>
    /\ val = <<1, 0, 0, 0, 0, 0, 0, 0>>

\* C4: from_bits(as_bits_until(v, until)) is v mod 2^until for every v and
\* every until in [0, W]: 0 when until = 0, v itself when until = W.
C4_RoundTripTruncates ==
    (last = "from_bits" /\ prev = "as_bits_until")
        => /\ status = "ok"
           /\ until <= width
           /\ val = ClearFrom(srcVal, until, width)
           /\ until = 0 => val = Zero(width)
           /\ until = width => val = srcVal

C4_Witness ==
    /\ last = "from_bits" /\ prev = "as_bits_until" /\ status = "ok"
    /\ until > 0 /\ until < width
    /\ val # srcVal
    /\ val # Zero(width)
    /\ val = ClearFrom(srcVal, until, width)

\* C5: as_bits_until with until > W panics and returns no vector: the result
\* is not clamped to W elements and no bit is extracted.
C5_UntilTooLargePanics ==
    (last = "as_bits_until" /\ until > width)
        => /\ status = "panic"
           /\ have = "none"
           /\ prev = "none" => bits = <<>>

C5_Witness ==
    /\ last = "as_bits_until"
    /\ until = width + 1
    /\ status = "panic"
    /\ srcVal # Zero(width)

\* C6: from_bits of a vector longer than W panics and returns no value,
\* whatever the vector holds, also when every element from index W on is
\* false: the accumulator is never set.
C6_TooLongPanics ==
    (last = "from_bits" /\ Len(srcBits) > width)
        => /\ status = "panic"
           /\ have = "none"
           /\ prev = "none" => val = Zero(width)

C6_Witness ==
    /\ last = "from_bits"
    /\ Len(srcBits) = width + 1
    /\ ~srcBits[width + 1]
    /\ srcBits[1]
    /\ status = "panic"

\* C7: as_bits_until with until in [0, W] does not panic and returns exactly
\* `until` booleans, element i being bit i of the value; the empty vector for
\* until = 0, and the vector as_bits returns for until = W.
C7_AsBitsUntilPrefix ==
    (last = "as_bits_until" /\ until <= width)
        => /\ status = "ok"
           /\ Len(bits) = until
           /\ \A i \in 0..(until - 1) : bits[i + 1] = BitOf(srcVal, i)
           /\ until = 0 => bits = <<>>
           /\ until = width => Returned(bits) = as_bits(srcVal, width)

C7_Witness ==
    /\ last = "as_bits_until" /\ status = "ok"
    /\ width = 64
    /\ until = 4
    /\ srcVal = <<5, 0, 0, 0, 0, 0, 0, 0>>
    /\ bits = <<TRUE, FALSE, TRUE, FALSE>>

\* C8: for a vector of length L < W, from_bits(bits) equals from_bits of bits
\* followed by k false elements, for k = W - L and for every k up to MaxPad
\* with L + k <= W.
C8_PaddingIdempotent ==
    (last = "from_bits" /\ Len(srcBits) < width)
        => /\ status = "ok"
           /\ \A k \in PadCounts(Len(srcBits), width) :
                from_bits(srcBits \o Falses(k), width) = Returned(val)

C8_Witness ==
    /\ last = "from_bits" /\ status = "ok"
    /\ width = 16
    /\ srcBits = <<TRUE, FALSE, TRUE>>
    /\ val = <<5, 0>>
    /\ from_bits(srcBits \o Falses(13), width) = Returned(val)

\* C9: as the documentation of as_bits_until states (lib.rs:62-63),
\* as_bits_until panics if `until` is smaller than the size of the integer
\* type.  The code asserts `until <= $length` (macros.rs:14) and returns the
\* bits instead, e.g. for 5u64.as_bits_until(4).
C9_PanicsIfSmaller ==
    (last = "as_bits_until" /\ until < width) => status = "panic"

\* C10: for a vector of length L <= W, as_bits_until(from_bits(bits), L)
\* returns exactly bits.
C10_InverseRoundTrip ==
    (last = "as_bits_until" /\ prev = "from_bits")
        => /\ status = "ok"
           /\ until = Len(srcBits)
           /\ bits = srcBits

C10_Witness ==
    /\ last = "as_bits_until" /\ prev = "from_bits" /\ status = "ok"
    /\ width = 32
    /\ Len(srcBits) = width
    /\ srcBits[width]
    /\ ~srcBits[1]
    /\ bits = srcBits

====
